---- MODULE Spec2Model ----
(***************************************************************************)
(* Model of the OpenAI-compatible LLM API client of src/llm_api.py:        *)
(* call_llm_api (validation, endpoint normalisation, headers, messages,    *)
(* payload, one HTTP POST, error mapping) and the response accessors       *)
(* extract_response_text and get_usage_info.                               *)
(*                                                                         *)
(* Python values are tagged records: field t is the Python type, and the   *)
(* value is in field s (a str, as a TLA+ string), i (an int), f (a float,  *)
(* in tenths: 0.7 is Float(7)), l (a list, as a sequence) or d (a dict, as *)
(* a function from its keys).                                              *)
(***************************************************************************)
EXTENDS Integers, Sequences, FiniteSets, TLC

VARIABLES pc, args, posts, request, reply, outcome, text, usage

vars == <<pc, args, posts, request, reply, outcome, text, usage>>

(* ------------------------------ bounds --------------------------------- *)

\* Most '/' characters appended to an endpoint drawn as input.
MaxSlashes == 2

(* --------------------------- Python values ----------------------------- *)

None == [t |-> "none"]

Str(s) == [t |-> "str", s |-> s]

IntVal(n) == [t |-> "int", i |-> n]

Float(tenths) == [t |-> "float", f |-> tenths]

List(s) == [t |-> "list", l |-> s]

Dict(f) == [t |-> "dict", d |-> f]

EmptyMap == [k \in {} |-> None]

\* bool(x): None, "", 0, 0.0, [] and {} are falsy.
Truthy(x) ==
    CASE x.t = "none" -> FALSE
      [] x.t = "str" -> x.s # ""
      [] x.t = "int" -> x.i # 0
      [] x.t = "float" -> x.f # 0
      [] x.t = "list" -> Len(x.l) # 0
      [] x.t = "dict" -> DOMAIN x.d # {}

\* isinstance(x, str)
IsStr(x) == x.t = "str"

\* s.endswith(suffix)
EndsWith(s, suffix) ==
    /\ Len(s) >= Len(suffix)
    /\ SubSeq(s, Len(s) - Len(suffix) + 1, Len(s)) = suffix

\* s.rstrip('/'): every trailing '/' is removed.
RECURSIVE RStripSlash(_)
RStripSlash(s) ==
    IF Len(s) > 0 /\ SubSeq(s, Len(s), Len(s)) = "/"
    THEN RStripSlash(SubSeq(s, 1, Len(s) - 1))
    ELSE s

(* ------------------------------ inputs --------------------------------- *)

RECURSIVE Slashes(_)
Slashes(k) == IF k = 0 THEN "" ELSE "/" \o Slashes(k - 1)

Prompts == {None, IntVal(5), Str(""), Str("Test prompt")}

UrlBases == {"", "https://x/v1"}

UrlTails == {"", "/chat", "/chat/completions"}

ApiUrls ==
    {None} \cup
    {Str(b \o tl \o Slashes(k)) : b \in UrlBases, tl \in UrlTails, k \in 0..MaxSlashes}

ApiKeys == {None, Str(""), Str("abc")}

Models == {Str("gpt-3.5-turbo")}

\* -0.1, 0, 0.7, 2, 2.1
Temperatures == {Float(0 - 1), Float(0), Float(7), Float(20), Float(21)}

MaxTokensValues == {None, IntVal(0 - 1), IntVal(0), IntVal(1), IntVal(50)}

SystemMessages == {None, Str(""), Str("You are a helpful assistant.")}

Timeouts == {IntVal(30)}

\* **kwargs can hold no key that names a parameter of call_llm_api: Python
\* binds such a keyword to the parameter itself.
KwargsValues ==
    { EmptyMap,
      "top_p" :> Float(9),
      "messages" :> List(<<>>),
      ("messages" :> List(<<>>)) @@ ("stop" :> List(<<Str("\n\n")>>)) }

ArgsValues ==
    [prompt : Prompts, api_url : ApiUrls, api_key : ApiKeys, model : Models,
     temperature : Temperatures, max_tokens : MaxTokensValues,
     system_message : SystemMessages, timeout : Timeouts, kwargs : KwargsValues]

(* --------------------------- call_llm_api ------------------------------ *)

Raise(type, msg) == [kind |-> "raise", type |-> type, msg |-> msg]

Return(val) == [kind |-> "return", val |-> val]

NoOutcome == [kind |-> "none"]

\* Validate without its last check: a max_tokens of 0 or less goes through.
Validate_NoMaxTokensCheck(prompt, api_url, temperature, max_tokens) ==
    IF ~Truthy(prompt) \/ ~IsStr(prompt)
    THEN Raise("ValueError", "Prompt must be a non-empty string")
    ELSE IF ~Truthy(api_url) \/ ~IsStr(api_url)
    THEN Raise("ValueError", "API URL must be a non-empty string")
    ELSE IF ~(0 <= temperature.f /\ temperature.f <= 2 * 10)
    THEN Raise("ValueError", "Temperature must be between 0 and 2")
    ELSE NoOutcome

\* The four checks of the arguments, in the order of the code; the result is
\* the ValueError raised, or NoOutcome when every check passes.
Validate(prompt, api_url, temperature, max_tokens) ==
    IF ~Truthy(prompt) \/ ~IsStr(prompt)
    THEN Raise("ValueError", "Prompt must be a non-empty string")
    ELSE IF ~Truthy(api_url) \/ ~IsStr(api_url)
    THEN Raise("ValueError", "API URL must be a non-empty string")
    ELSE IF ~(0 <= temperature.f /\ temperature.f <= 2 * 10)
    THEN Raise("ValueError", "Temperature must be between 0 and 2")
    ELSE IF max_tokens # None /\ max_tokens.i <= 0
    THEN Raise("ValueError", "max_tokens must be positive")
    ELSE NoOutcome

\* NormalizeUrl without the test of the suffix: the endpoint path is appended
\* to an URL that has it already.
NormalizeUrl_AlwaysAppend(api_url) ==
    RStripSlash(api_url) \o "/chat/completions"

\* The URL the request goes to.
NormalizeUrl(api_url) ==
    IF ~EndsWith(api_url, "/chat/completions")
    THEN RStripSlash(api_url) \o "/chat/completions"
    ELSE api_url

\* BuildHeaders testing "api_key is not None" instead of its truth value.
BuildHeaders_KeyNotNone(api_key) ==
    IF api_key # None
    THEN ("Content-Type" :> "application/json")
         @@ ("Authorization" :> ("Bearer " \o api_key.s))
    ELSE ("Content-Type" :> "application/json")

\* headers = {"Content-Type": ...}, plus Authorization when api_key is truthy.
BuildHeaders(api_key) ==
    IF Truthy(api_key)
    THEN ("Content-Type" :> "application/json")
         @@ ("Authorization" :> ("Bearer " \o api_key.s))
    ELSE ("Content-Type" :> "application/json")

Message(role, content) == Dict(("role" :> Str(role)) @@ ("content" :> content))

\* BuildMessages testing "system_message is not None" instead of its truth
\* value.
BuildMessages_NotNone(system_message, prompt) ==
    LET messages0 == <<>>
        messages1 == IF system_message # None
                     THEN Append(messages0, Message("system", system_message))
                     ELSE messages0
    IN  List(Append(messages1, Message("user", prompt)))

\* messages = [], the system message appended when system_message is truthy,
\* then the user message.
BuildMessages(system_message, prompt) ==
    LET messages0 == <<>>
        messages1 == IF Truthy(system_message)
                     THEN Append(messages0, Message("system", system_message))
                     ELSE messages0
    IN  List(Append(messages1, Message("user", prompt)))

\* BuildPayload that never sets max_tokens.
BuildPayload_NoMaxTokens(model, messages, temperature, max_tokens, kwargs) ==
    kwargs @@ ("model" :> model) @@ ("messages" :> messages)
    @@ ("temperature" :> temperature)

\* BuildPayload with **kwargs unpacked first: the base keys win a collision.
BuildPayload_BaseWins(model, messages, temperature, max_tokens, kwargs) ==
    LET base == ("model" :> model) @@ ("messages" :> messages)
                @@ ("temperature" :> temperature)
        payload == base @@ kwargs
    IN  IF max_tokens # None
        THEN ("max_tokens" :> max_tokens) @@ payload
        ELSE payload

\* {"model": ..., "messages": ..., "temperature": ..., **kwargs}: a key of
\* kwargs replaces the base key of the same name (f @@ g keeps f's value).
\* max_tokens is then set when it is not None.
BuildPayload(model, messages, temperature, max_tokens, kwargs) ==
    LET base == ("model" :> model) @@ ("messages" :> messages)
                @@ ("temperature" :> temperature)
        payload == kwargs @@ base
    IN  IF max_tokens # None
        THEN ("max_tokens" :> max_tokens) @@ payload
        ELSE payload

NoRequest == [sent |-> FALSE]

\* requests.post(api_url, headers=headers, json=payload, timeout=timeout)
PostRequest(a) ==
    [sent |-> TRUE,
     url |-> NormalizeUrl(a.api_url.s),
     headers |-> BuildHeaders(a.api_key),
     json |-> BuildPayload(a.model, BuildMessages(a.system_message, a.prompt),
                           a.temperature, a.max_tokens, a.kwargs),
     timeout |-> a.timeout]

(* ------------------------ the HTTP attempt ----------------------------- *)

\* JSON documents a server may answer with: the raw text and what parsing it
\* gives (ok = FALSE when the text is no JSON).
Parsed(raw, val) == [text |-> raw, ok |-> TRUE, val |-> val]

Unparsable(raw) == [text |-> raw, ok |-> FALSE]

ContentHi == Dict("content" :> Str("hi"))

UsageInfo == Dict("total_tokens" :> IntVal(18))

Bodies ==
    { Parsed("{\"choices\":[{\"message\":{\"content\":\"hi\"}}],\"usage\":{\"total_tokens\":18}}",
             Dict(("choices" :> List(<<Dict("message" :> ContentHi)>>))
                  @@ ("usage" :> UsageInfo))),
      Parsed("{\"choices\":[{\"message\":{\"content\":\"hi\"}}]}",
             Dict("choices" :> List(<<Dict("message" :> ContentHi)>>))),
      Parsed("{\"choices\":[{\"message\":{\"content\":null}}]}",
             Dict("choices" :> List(<<Dict("message" :> Dict("content" :> None))>>))),
      Parsed("{\"choices\":[{\"message\":{}}]}",
             Dict("choices" :> List(<<Dict("message" :> Dict(EmptyMap))>>))),
      Parsed("{\"choices\":[{\"message\":null}]}",
             Dict("choices" :> List(<<Dict("message" :> None)>>))),
      Parsed("{\"choices\":[{\"message\":\"hi\"}]}",
             Dict("choices" :> List(<<Dict("message" :> Str("hi"))>>))),
      Parsed("{\"choices\":[{}]}", Dict("choices" :> List(<<Dict(EmptyMap)>>))),
      Parsed("{\"choices\":[null]}", Dict("choices" :> List(<<None>>))),
      Parsed("{\"choices\":[]}", Dict("choices" :> List(<<>>))),
      Parsed("{\"choices\":{}}", Dict("choices" :> Dict(EmptyMap))),
      Parsed("{\"choices\":null}", Dict("choices" :> None)),
      Parsed("{\"choices\":\"\"}", Dict("choices" :> Str(""))),
      Parsed("{\"usage\":{\"total_tokens\":18}}", Dict("usage" :> UsageInfo)),
      Parsed("{}", Dict(EmptyMap)),
      Parsed("[]", List(<<>>)),
      Parsed("null", None),
      Unparsable("<html>Bad Gateway</html>"),
      Unparsable("") }

StatusCodes == {200, 201, 300, 404, 500}

\* What requests.post gives: an exception of the requests library, or a
\* Response with its status code and body.
PostExceptions ==
    { [kind |-> "exception", cls |-> "ConnectTimeout", str |-> "connect timed out"],
      [kind |-> "exception", cls |-> "ReadTimeout", str |-> "read timed out"],
      [kind |-> "exception", cls |-> "ConnectionError", str |-> "connection refused"],
      [kind |-> "exception", cls |-> "TooManyRedirects", str |-> "Exceeded 30 redirects."] }

PostResponses ==
    { [kind |-> "response", status_code |-> sc, body |-> b] :
        sc \in StatusCodes, b \in Bodies }

Replies == PostExceptions \cup PostResponses

\* The class response.json() raises on an unparsable body: requests from 2.27
\* on raises requests.exceptions.JSONDecodeError, older ones the decoder's own.
JsonErrorClasses == {"requests.JSONDecodeError", "json.JSONDecodeError"}

\* The classes an exception is an instance of (its class and its bases).
Bases(cls) ==
    CASE cls = "ConnectTimeout" ->
            {"ConnectTimeout", "ConnectionError", "Timeout", "RequestException"}
      [] cls = "ReadTimeout" -> {"ReadTimeout", "Timeout", "RequestException"}
      [] cls = "ConnectionError" -> {"ConnectionError", "RequestException"}
      [] cls = "TooManyRedirects" -> {"TooManyRedirects", "RequestException"}
      [] cls = "HTTPError" -> {"HTTPError", "RequestException"}
      [] cls = "requests.JSONDecodeError" ->
            {"requests.JSONDecodeError", "InvalidJSONError", "RequestException",
             "json.JSONDecodeError", "ValueError"}
      [] cls = "json.JSONDecodeError" -> {"json.JSONDecodeError", "ValueError"}

IsInstance(e, cls) == cls \in Bases(e.cls)

\* response.raise_for_status() raises HTTPError for a 4xx or 5xx status only.
RaisesForStatus(status_code) == 400 <= status_code /\ status_code < 600

NoException == [kind |-> "none"]

\* The body of the try block after requests.post has given r: the exception
\* raised in it, or NoException when it reaches "return result".
TryBlock(r, jsonErr) ==
    IF r.kind = "exception"
    THEN r
    ELSE IF RaisesForStatus(r.status_code)
    THEN [kind |-> "exception", cls |-> "HTTPError",
          str |-> ToString(r.status_code) \o " Error",
          status_code |-> r.status_code, text |-> r.body.text]
    ELSE IF ~r.body.ok
    THEN [kind |-> "exception", cls |-> jsonErr,
          str |-> "Expecting value: line 1 column 1 (char 0)"]
    ELSE NoException

\* The except clauses, tried in the order of the code; an exception no clause
\* matches leaves the function as it is.
Handle(e, api_url, timeout) ==
    IF IsInstance(e, "Timeout")
    THEN Raise("RuntimeError",
               "Request timed out after " \o ToString(timeout.i) \o " seconds")
    ELSE IF IsInstance(e, "ConnectionError")
    THEN Raise("RuntimeError", "Failed to connect to API at " \o api_url)
    ELSE IF IsInstance(e, "HTTPError")
    THEN Raise("RuntimeError",
               "HTTP error occurred: " \o ToString(e.status_code) \o " - " \o e.text)
    ELSE IF IsInstance(e, "RequestException")
    THEN Raise("RuntimeError", "Request failed: " \o e.str)
    ELSE IF IsInstance(e, "json.JSONDecodeError")
    THEN Raise("RuntimeError", "Failed to parse API response as JSON")
    ELSE Raise(e.cls, e.str)

\* What call_llm_api ends with once requests.post has given r.
Complete(r, jsonErr, api_url, timeout) ==
    LET e == TryBlock(r, jsonErr)
    IN  IF e = NoException
        THEN Return(r.body.val)
        ELSE Handle(e, api_url, timeout)

(* ------------------------ response accessors --------------------------- *)

Got(val) == [ok |-> TRUE, val |-> val]

Failed(exc, str) == [ok |-> FALSE, exc |-> exc, str |-> str]

\* obj[key] for a str key.  The keys of a dict parsed from JSON are strs.
GetItemStr(obj, key) ==
    CASE obj.t = "dict" ->
            IF key \in DOMAIN obj.d
            THEN Got(obj.d[key])
            ELSE Failed("KeyError", "'" \o key \o "'")
      [] obj.t = "list" ->
            Failed("TypeError", "list indices must be integers or slices, not str")
      [] obj.t = "str" ->
            Failed("TypeError", "string indices must be integers")
      [] OTHER ->
            Failed("TypeError", "'" \o obj.t \o "' object is not subscriptable")

\* obj[i] for an int i >= 0.
GetItemInt(obj, i) ==
    CASE obj.t = "dict" -> Failed("KeyError", ToString(i))
      [] obj.t = "list" ->
            IF i < Len(obj.l)
            THEN Got(obj.l[i + 1])
            ELSE Failed("IndexError", "list index out of range")
      [] obj.t = "str" ->
            IF i < Len(obj.s)
            THEN Got(Str(SubSeq(obj.s, i + 1, i + 1)))
            ELSE Failed("IndexError", "string index out of range")
      [] OTHER ->
            Failed("TypeError", "'" \o obj.t \o "' object is not subscriptable")

\* api_response["choices"][0]["message"]["content"], stopping at the first
\* subscription that raises.
ContentPath(api_response) ==
    LET choices == GetItemStr(api_response, "choices")
        first == IF choices.ok THEN GetItemInt(choices.val, 0) ELSE choices
        message == IF first.ok THEN GetItemStr(first.val, "message") ELSE first
    IN  IF message.ok THEN GetItemStr(message.val, "content") ELSE message

extract_response_text(api_response) ==
    LET got == ContentPath(api_response)
    IN  IF got.ok
        THEN Return(got.val)
        ELSE IF got.exc \in {"KeyError", "IndexError"}
        THEN Raise("KeyError", "Unexpected response format: " \o got.str)
        ELSE Raise(got.exc, got.str)

\* get_usage_info reading api_response["usage"]: a missing key raises.
get_usage_info_Subscript(api_response) ==
    IF api_response.t = "dict"
    THEN IF "usage" \in DOMAIN api_response.d
         THEN Return(api_response.d["usage"])
         ELSE Raise("KeyError", "'usage'")
    ELSE Raise("TypeError", "'" \o api_response.t \o "' object is not subscriptable")

\* api_response.get("usage")
get_usage_info(api_response) ==
    IF api_response.t = "dict"
    THEN IF "usage" \in DOMAIN api_response.d
         THEN Return(api_response.d["usage"])
         ELSE Return(None)
    ELSE Raise("AttributeError",
               "'" \o api_response.t \o "' object has no attribute 'get'")

NoArgs == [called |-> FALSE]

NoReply == [kind |-> "none"]

Init ==
    /\ pc = "idle"
    /\ args = NoArgs
    /\ posts = 0
    /\ request = NoRequest
    /\ reply = NoReply
    /\ outcome = NoOutcome
    /\ text = NoOutcome
    /\ usage = NoOutcome

\* call_llm_api up to and including the sending of the request: a failed
\* check ends the call, otherwise the request is built and posted.
Invoke ==
    /\ pc = "idle"
    /\ \E a \in ArgsValues :
        LET v == Validate(a.prompt, a.api_url, a.temperature, a.max_tokens)
        IN  /\ args' = a
            /\ IF v # NoOutcome
               THEN /\ outcome' = v
                    /\ pc' = "done"
                    /\ UNCHANGED <<posts, request>>
               ELSE /\ request' = PostRequest(a)
                    /\ posts' = posts + 1
                    /\ pc' = "posted"
                    /\ UNCHANGED outcome
    /\ UNCHANGED <<reply, text, usage>>

\* Receive with a retry: a failed attempt is followed by another POST.
Receive_RetryOnFailure ==
    /\ pc = "posted"
    /\ \E r \in Replies, jsonErr \in JsonErrorClasses :
        LET o == Complete(r, jsonErr, request.url, request.timeout)
        IN  /\ reply' = r
            /\ IF o.kind = "raise" /\ posts < 2
               THEN /\ posts' = posts + 1
                    /\ pc' = "posted"
                    /\ UNCHANGED outcome
               ELSE /\ outcome' = o
                    /\ pc' = "done"
                    /\ UNCHANGED posts
    /\ UNCHANGED <<args, request, text, usage>>

\* The rest of call_llm_api: the answer of the one POST is turned into the
\* value returned or the error raised.
Receive ==
    /\ pc = "posted"
    /\ \E r \in Replies, jsonErr \in JsonErrorClasses :
        /\ reply' = r
        /\ outcome' = Complete(r, jsonErr, request.url, request.timeout)
    /\ pc' = "done"
    /\ UNCHANGED <<args, posts, request, text, usage>>

\* The caller reads the generated text of the response call_llm_api returned.
ExtractText ==
    /\ pc = "done"
    /\ outcome.kind = "return"
    /\ text' = extract_response_text(outcome.val)
    /\ pc' = "text_done"
    /\ UNCHANGED <<args, posts, request, reply, outcome, usage>>

\* The caller reads the usage information of the response.
GetUsage ==
    /\ pc = "done"
    /\ outcome.kind = "return"
    /\ usage' = get_usage_info(outcome.val)
    /\ pc' = "usage_done"
    /\ UNCHANGED <<args, posts, request, reply, outcome, text>>

Next == Invoke \/ Receive \/ ExtractText \/ GetUsage

Spec == Init /\ [][Next]_vars

(* ------------------------------- claims -------------------------------- *)

Called == args # NoArgs

Finished == pc \in {"done", "text_done", "usage_done"}

\* The validation rules as the interface states them.
PromptInvalid(a) == a.prompt.t # "str" \/ a.prompt.s = ""

EndpointInvalid(a) == a.api_url.t # "str" \/ a.api_url.s = ""

TemperatureInvalid(a) == a.temperature.f < 0 \/ a.temperature.f > 20

MaxTokensInvalid(a) == a.max_tokens.t # "none" /\ a.max_tokens.i <= 0

ArgsInvalid(a) ==
    PromptInvalid(a) \/ EndpointInvalid(a) \/ TemperatureInvalid(a) \/ MaxTokensInvalid(a)

\* C1: a call whose arguments break at least one validation rule ends with a
\* ValueError, and no POST is made at any point of that call.
C1_InvalidArgumentsFailBeforeIO ==
    (Called /\ ArgsInvalid(args)) =>
        /\ pc = "done"
        /\ outcome.kind = "raise"
        /\ outcome.type = "ValueError"
        /\ posts = 0
        /\ request = NoRequest
        /\ reply = NoReply

\* A call that passes the first three checks and fails the last one.
C1_Witness ==
    /\ pc = "done"
    /\ ~PromptInvalid(args) /\ ~EndpointInvalid(args) /\ ~TemperatureInvalid(args)
    /\ args.max_tokens = IntVal(0)
    /\ outcome = Raise("ValueError", "max_tokens must be positive")
    /\ posts = 0

\* C2: a call with valid arguments (temperature 0 and 2 and max_tokens 1
\* included) makes exactly one POST, whatever the answer to it; a failed
\* attempt is not retried.
C2_ValidArgumentsPostExactlyOnce ==
    (Called /\ ~ArgsInvalid(args)) =>
        /\ posts = 1
        /\ request.sent
        /\ pc # "idle"
        /\ (Finished => reply # NoReply)

\* A call at the boundaries of the ranges whose one attempt failed.
C2_Witness ==
    /\ pc = "done"
    /\ args.temperature = Float(20)
    /\ args.max_tokens = IntVal(1)
    /\ reply.kind = "exception"
    /\ outcome.kind = "raise"
    /\ posts = 1

\* The answer to the POST, as the interface classifies it.
ReplySucceeded(r) ==
    /\ r.kind = "response"
    /\ 200 <= r.status_code /\ r.status_code <= 299
    /\ r.body.ok

ReplyTimedOut(r) == r.kind = "exception" /\ r.cls \in {"ConnectTimeout", "ReadTimeout"}

ReplyConnectionFailed(r) == r.kind = "exception" /\ r.cls = "ConnectionError"

ReplyBadStatus(r) ==
    r.kind = "response" /\ ~(200 <= r.status_code /\ r.status_code <= 299)

ReplyMalformedBody(r) ==
    /\ r.kind = "response"
    /\ 200 <= r.status_code /\ r.status_code <= 299
    /\ ~r.body.ok

\* C3: when the POST succeeds (2xx status, body parses as JSON) the call
\* returns the parsed body unchanged, and a response is returned in no other
\* case: not after a timeout, a connection failure, a non-2xx status or an
\* unparsable body.
C3_ResponseReturnedOnlyOnSuccess ==
    (Finished /\ reply # NoReply) =>
        /\ ReplySucceeded(reply) => outcome = Return(reply.body.val)
        /\ outcome.kind = "return" => ReplySucceeded(reply)

\* s starts with prefix.
StartsWith(s, prefix) ==
    Len(s) >= Len(prefix) /\ SubSeq(s, 1, Len(prefix)) = prefix

\* C4: a timeout, a connection failure, a non-2xx status and a malformed body
\* each reach the caller as an error with a message of its own kind, which
\* none of the other three kinds produces; no such failure ends in a normal
\* return.
C4_FailuresAreDistinctErrors ==
    (Finished /\ reply # NoReply) =>
        /\ ReplyTimedOut(reply) =>
            /\ outcome.kind = "raise"
            /\ StartsWith(outcome.msg, "Request timed out after ")
        /\ ReplyConnectionFailed(reply) =>
            /\ outcome.kind = "raise"
            /\ StartsWith(outcome.msg, "Failed to connect to API at ")
        /\ ReplyBadStatus(reply) =>
            /\ outcome.kind = "raise"
            /\ StartsWith(outcome.msg, "HTTP error occurred: ")
        /\ ReplyMalformedBody(reply) =>
            /\ outcome.kind = "raise"
            /\ \/ outcome.msg = "Failed to parse API response as JSON"
               \/ StartsWith(outcome.msg, "Request failed: ")

\* The endpoint with every trailing '/' removed, found by search: the prefix
\* that does not end with '/' and is followed by '/' characters only.
Stripped(e) ==
    CHOOSE p \in {SubSeq(e, 1, n) : n \in 0..Len(e)} :
        /\ ~EndsWith(p, "/")
        /\ e = p \o Slashes(Len(e) - Len(p))

\* C5: the normalisation of the endpoint is idempotent; an endpoint ending
\* with '/chat/completions' is left as it is, any other one has all its
\* trailing '/' removed and '/chat/completions' appended; 'https://x/v1' and
\* 'https://x/v1/chat/completions' both give 'https://x/v1/chat/completions',
\* and the POST goes to the normalised URL.
C5_NormalizationIdempotent ==
    request.sent =>
        LET e == args.api_url.s
            n == NormalizeUrl(e)
        IN  /\ request.url = n
            /\ NormalizeUrl(n) = n
            /\ EndsWith(e, "/chat/completions") => n = e
            /\ ~EndsWith(e, "/chat/completions") =>
                    n = Stripped(e) \o "/chat/completions"
            /\ e \in {"https://x/v1", "https://x/v1/chat/completions"} =>
                    n = "https://x/v1/chat/completions"

\* A request whose endpoint had two trailing '/' to strip.
C5_Witness ==
    /\ request.sent
    /\ args.api_url = Str("https://x/v1//")
    /\ request.url = "https://x/v1/chat/completions"

\* C6: the headers always hold Content-Type: application/json; they hold
\* Authorization exactly when api_key is supplied and not empty, and its value
\* is then 'Bearer ' followed by the key; there is no other header.
C6_HeadersFollowApiKey ==
    request.sent =>
        LET h == request.headers
            keyed == args.api_key.t # "none" /\ args.api_key.s # ""
        IN  /\ "Content-Type" \in DOMAIN h
            /\ h["Content-Type"] = "application/json"
            /\ ("Authorization" \in DOMAIN h) <=> keyed
            /\ keyed => h["Authorization"] = "Bearer " \o args.api_key.s
            /\ DOMAIN h = IF keyed THEN {"Content-Type", "Authorization"}
                                   ELSE {"Content-Type"}
            /\ args.api_key = Str("abc") => h["Authorization"] = "Bearer abc"

\* A request sent with api_key = 'abc'.
C6_Witness ==
    /\ request.sent
    /\ args.api_key = Str("abc")
    /\ request.headers = ("Content-Type" :> "application/json")
                         @@ ("Authorization" :> "Bearer abc")

SystemEntry(a) ==
    Dict(("role" :> Str("system")) @@ ("content" :> a.system_message))

UserEntry(a) == Dict(("role" :> Str("user")) @@ ("content" :> a.prompt))

\* The messages of the request: the list call_llm_api builds, which is the
\* payload's 'messages' unless an extra parameter of that name replaces it.
BuiltMessages == BuildMessages(args.system_message, args.prompt)

MessagesSent ==
    "messages" \notin DOMAIN args.kwargs => request.json["messages"] = BuiltMessages

\* C7 as stated: any supplied system_message, the empty text included, gives
\* [system, user]; an omitted one gives [user].
C7_AnySuppliedSystemMessage ==
    request.sent =>
        /\ MessagesSent
        /\ args.system_message # None =>
                BuiltMessages = List(<<SystemEntry(args), UserEntry(args)>>)
        /\ args.system_message = None => BuiltMessages = List(<<UserEntry(args)>>)

\* C7, amended: a supplied system_message that is not empty gives
\* [system, user] in that order; an omitted or empty one gives [user]; the
\* user message is the last element in every case.
C7_NonEmptySystemMessage ==
    request.sent =>
        LET supplied == args.system_message.t # "none" /\ args.system_message.s # ""
        IN  /\ MessagesSent
            /\ supplied => BuiltMessages = List(<<SystemEntry(args), UserEntry(args)>>)
            /\ ~supplied => BuiltMessages = List(<<UserEntry(args)>>)
            /\ BuiltMessages.l[Len(BuiltMessages.l)] = UserEntry(args)

\* A request that carries a system message before the user message.
C7_Witness ==
    /\ request.sent
    /\ args.system_message = Str("You are a helpful assistant.")
    /\ Len(request.json["messages"].l) = 2
    /\ request.json["messages"].l[1] = SystemEntry(args)
    /\ request.json["messages"].l[2] = UserEntry(args)

\* C8: the payload holds the key max_tokens exactly when the max_tokens
\* parameter was supplied, with the supplied value, whatever the other
\* parameters and the extra parameters are.
C8_MaxTokensKeyIffSupplied ==
    request.sent =>
        /\ ("max_tokens" \in DOMAIN request.json) <=> (args.max_tokens.t # "none")
        /\ args.max_tokens.t # "none" => request.json["max_tokens"] = args.max_tokens

\* A payload with max_tokens = 1 beside extra parameters.
C8_Witness ==
    /\ request.sent
    /\ args.max_tokens = IntVal(1)
    /\ DOMAIN args.kwargs # {}
    /\ request.json["max_tokens"] = IntVal(1)

BaseKeys == {"model", "messages", "temperature"}

BaseValue(k) ==
    CASE k = "model" -> args.model
      [] k = "messages" -> BuiltMessages
      [] k = "temperature" -> args.temperature

\* C9: the payload is {model, messages, temperature} merged with the extra
\* parameters, the extra winning a collision: every extra key is in the payload
\* with the extra's value, every base key no extra names keeps its base value,
\* and max_tokens is the only other key.
C9_ExtrasOverwriteBase ==
    request.sent =>
        LET pl == request.json
            kw == args.kwargs
        IN  /\ \A k \in DOMAIN kw : k \in DOMAIN pl /\ pl[k] = kw[k]
            /\ \A k \in BaseKeys \ DOMAIN kw : k \in DOMAIN pl /\ pl[k] = BaseValue(k)
            /\ DOMAIN pl \ {"max_tokens"} = BaseKeys \cup DOMAIN kw

\* A payload whose 'messages' is the extra parameter's, not the built list.
C9_Witness ==
    /\ request.sent
    /\ "messages" \in DOMAIN args.kwargs
    /\ request.json["messages"] = List(<<>>)
    /\ request.json["messages"] # BuiltMessages
    /\ request.json["model"] = args.model

\* The path choices[0].message.content exists in the response r.
HasContentPath(r) ==
    /\ r.t = "dict" /\ "choices" \in DOMAIN r.d
    /\ r.d["choices"].t = "list" /\ Len(r.d["choices"].l) > 0
    /\ r.d["choices"].l[1].t = "dict" /\ "message" \in DOMAIN r.d["choices"].l[1].d
    /\ r.d["choices"].l[1].d["message"].t = "dict"
    /\ "content" \in DOMAIN r.d["choices"].l[1].d["message"].d

\* C10: extract_response_text returns choices[0].message.content when that
\* path exists; when 'choices' is absent or empty or a step of the path is
\* missing it raises KeyError: it returns nothing then, and raises no other
\* kind of error.  Stated for the responses that are a dict, as the signature
\* of the function has it.
C10_MissingPathRaisesKeyError ==
    (pc = "text_done" /\ outcome.val.t = "dict") =>
        LET r == outcome.val
        IN  /\ HasContentPath(r) =>
                text = Return(r.d["choices"].l[1].d["message"].d["content"])
            /\ ~HasContentPath(r) => (text.kind = "raise" /\ text.type = "KeyError")

\* C11: get_usage_info returns the value of the key 'usage' unchanged when the
\* response has it, and returns None, raising nothing, when the key is missing
\* (as for the empty response {}); the response is left as it was received.
\* Stated for the responses that are a dict, as the signature of the function
\* has it.
C11_UsageOrNone ==
    (pc = "usage_done" /\ outcome.val.t = "dict") =>
        LET r == outcome.val
        IN  /\ "usage" \in DOMAIN r.d => usage = Return(r.d["usage"])
            /\ "usage" \notin DOMAIN r.d => usage = Return(None)
            /\ r = Dict(EmptyMap) => usage = Return(None)
            /\ usage.kind = "return"
            /\ outcome = Return(reply.body.val)

\* The usage information asked of the empty response {}.
C11_Witness ==
    /\ pc = "usage_done"
    /\ outcome = Return(Dict(EmptyMap))
    /\ usage = Return(None)

====
